---- MODULE Spec2Model ----
(***************************************************************************)
(* GitHubActivityViewer (src/src/components/input.tsx): a React component  *)
(* that fetches a user's profile and repositories from the GitHub REST API *)
(* and folds the commits of a year into twelve monthly buckets.            *)
(*                                                                         *)
(* The component state (useState hooks) is the set of model variables.     *)
(* Every async handler invocation is a "run": a record holding the values  *)
(* its closure captured, its locals and the request it is awaiting.  One   *)
(* action models everything the handler does between two awaits.           *)
(***************************************************************************)
EXTENDS Integers, Sequences, FiniteSets, TLC

(* ------------------------------------------------------------------ state *)
VARIABLES
    username,      \* useState<string>("")           (line 50)
    repos,         \* useState<Repo[]>([])           (line 51)
    commitData,    \* useState<CommitData[]>([])     (line 52)
    loading,       \* useState<boolean>(false)       (line 53)
    error,         \* useState<string>("")           (line 54)
    years,         \* useState<number[]>([])         (line 55)
    selectedYear,  \* useState<number | null>(null): <<>> is null, <<y>> is y
    showChart,     \* useState(false)                (line 57)
    now,           \* the wall clock read by new Date()
    runs,          \* the handler invocations: closure, locals, awaited request
    nruns,         \* how many invocations reached their first await
    profile,       \* history: the last successfully fetched user profile
    last,          \* history: the answer most recently received, and by which run
    github,        \* environment: which accounts and repositories GitHub holds
    budget         \* environment: how many invocations this session performs

vars == <<username, repos, commitData, loading, error, years, selectedYear,
          showChart, now, runs, nruns, profile, last, github, budget>>

(* ---------------------------------------------------------------- bounds *)
MaxRuns == 2
MaxLongRuns == 1
MaxTicks == 1
TicksPerYear == 3
BaseYear == 2026

(* ----------------------------------------------------- program constants *)
RepoCap == 25
PageCap == 5
PerPage == 100
Months == 12

Min(a, b) == IF a < b THEN a ELSE b

(* ------------------------------------------------------------ Date model *)
(* An instant is an integer number of clock ticks; year y covers the ticks *)
(* y*TicksPerYear .. (y+1)*TicksPerYear - 1.  The last tick of a year is   *)
(* "Dec 31 23:59:59", the first is "Jan 1 00:00:00".                       *)
getFullYear(t) == t \div TicksPerYear
DateYearStart(year) == year * TicksPerYear
DateYearEnd(year) == year * TicksPerYear + (TicksPerYear - 1)
toISOString(t) == [iso |-> t]
DateParse(s) == s.iso

StartInstant == DateYearEnd(BaseYear)

(* ---------------------------------------------------------- GitHub (env) *)
Usernames == {"", "alice", "bob"}

Repo(owner, kind, n) ==
    [id |-> n, name |-> <<kind, n>>, html_url |-> <<owner, kind, n>>]

Commit(y, m) == [hasAuthor |-> TRUE, date |-> [y |-> y, m |-> m]]
BadCommit == [hasAuthor |-> FALSE, date |-> [y |-> 0, m |-> 0]]

(* a page of n well-formed commits, spread over the months, authored in y *)
GoodPage(n, y) == [i \in 1..n |-> Commit(y, (i - 1) % Months)]
(* a page of n commits all authored in month m of year y *)
MonthPage(n, y, m) == [i \in 1..n |-> Commit(y, m)]

Ok(items) == [kind |-> "response", status |-> 200, ok |-> TRUE, json |-> TRUE, body |-> items]
OkBadJson == [kind |-> "response", status |-> 200, ok |-> TRUE, json |-> FALSE, body |-> <<>>]
Status(s) == [kind |-> "response", status |-> s, ok |-> FALSE, json |-> FALSE, body |-> <<>>]
Rejected == [kind |-> "rejected", status |-> 0, ok |-> FALSE, json |-> FALSE, body |-> <<>>]

(* What the commits endpoint answers for page p of a repository of each kind *)
PageOf(kind, p, y) ==
    CASE kind = "r230"       -> IF p <= 2 THEN Ok(GoodPage(PerPage, y))
                                ELSE IF p = 3 THEN Ok(GoodPage(30, y)) ELSE Ok(<<>>)
      [] kind = "rfull"      -> Ok(MonthPage(PerPage, y, 6))
      [] kind = "rone"       -> IF p = 1 THEN Ok(<<Commit(y - 1, 11)>>) ELSE Ok(<<>>)
      [] kind = "rempty"     -> Ok(<<>>)
      [] kind = "r404"       -> Status(404)
      [] kind = "r409"       -> Status(409)
      [] kind = "r500"       -> Status(500)
      [] kind = "rlate500"   -> IF p = 1 THEN Ok(MonthPage(PerPage, y, 0)) ELSE Status(500)
      [] kind = "rlatethrow" -> IF p = 1 THEN Ok(MonthPage(PerPage, y, 1)) ELSE Rejected
      [] kind = "rthrow"     -> Rejected
      [] kind = "rjson"      -> OkBadJson
      [] kind = "rbad"       -> Ok(<<Commit(y, 3), Commit(y, 3), Commit(y, 4),
                                     BadCommit, Commit(y, 5)>>)
      [] OTHER               -> Status(404)

FillerKinds == <<"r404", "rone", "rempty", "r409">>
BigList(owner, n) ==
    [i \in 1..n |-> Repo(owner, FillerKinds[((i - 1) % Len(FillerKinds)) + 1], 100 + i)]

(* The repository lists the repos endpoint may answer for each user: alice  *)
(* is the one account GitHub holds, and what it holds depends on the world. *)
(* Each world explores one dimension: "small" overlapping invocations and  *)
(* the passing of time, "flaky" the failures of the API, "paged" the        *)
(* pagination of commits, "large" an account of more than RepoCap repos.    *)
Worlds == {"small", "flaky", "paged", "large"}
RepoListsOf(u) ==
    IF u # "alice" THEN {}
    ELSE CASE github = "small" ->
                { <<>>,
                  <<Repo(u, "r404", 2), Repo(u, "rone", 1)>> }
           [] github = "flaky" ->
                { <<Repo(u, "r500", 8), Repo(u, "rlatethrow", 9), Repo(u, "r409", 10),
                    Repo(u, "rjson", 11), Repo(u, "rthrow", 3), Repo(u, "rone", 1)>> }
           [] github = "paged" ->
                { <<Repo(u, "r230", 1)>>,
                  <<Repo(u, "rfull", 4)>>,
                  <<Repo(u, "rbad", 5), Repo(u, "rlate500", 6), Repo(u, "rempty", 7)>> }
           [] OTHER ->
                { BigList(u, RepoCap + 2) }

(* how many handler invocations, and how many clock ticks, a session in    *)
(* each world is explored for                                              *)
BudgetOf(world) == IF world = "small" THEN MaxRuns ELSE MaxLongRuns
TicksOf(world) == IF world = "small" THEN MaxTicks ELSE 0

Exists(owner, name) ==
    \E L \in RepoListsOf(owner) : \E i \in 1..Len(L) : L[i].name = name

(* GET /repos/{owner}/{name}/commits?since&until&per_page=100&page=p *)
GitHubCommits(owner, name, since, until, p) ==
    IF Exists(owner, name) THEN PageOf(name[1], p, getFullYear(DateParse(since)))
    ELSE Status(404)

(* GET /users/{u}: the answers the profile endpoint may give; the account  *)
(* was created in one of CreatedYears; the "flaky" world is the one whose   *)
(* API also fails in every way the component distinguishes                  *)
CreatedYears == IF github = "small" THEN {BaseYear - 1, BaseYear + 1} ELSE {BaseYear - 1}
GitHubUser(u) ==
    (IF RepoListsOf(u) # {}
       THEN {[kind |-> "response", status |-> 200, ok |-> TRUE, json |-> TRUE,
              body |-> [created_at |-> DateYearStart(c) + 1]] : c \in CreatedYears}
       ELSE {Status(404)})
    \cup {Rejected}
    \cup (IF github = "flaky" THEN {Status(401), Status(403), Status(500)} ELSE {})

(* GET /users/{u}/repos?per_page=100 *)
GitHubRepos(u) ==
    {Ok(L) : L \in RepoListsOf(u)} \cup {Status(500)}
    \cup (IF github = "flaky" THEN {Status(404), OkBadJson, Rejected} ELSE {})

(* ------------------------------------------------------------ run records *)
RunIds == 1..(IF MaxRuns > MaxLongRuns THEN MaxRuns ELSE MaxLongRuns)

ZeroBuckets == [i \in 1..Months |-> [month |-> i - 1, commits |-> 0]]

IdleRun ==
    [pc |-> "idle", entry |-> "none", username |-> "", year |-> 0,
     customRepos |-> <<>>, reposToProcess |-> <<>>, now |-> 0, currentYear |-> 0,
     monthlyCommits |-> <<>>, idx |-> 0, page |-> 0, log |-> <<>>]

(* a finished invocation keeps nothing: its closure is garbage *)
DoneRun == [IdleRun EXCEPT !.pc = "done"]

(* what `last` records of an answer to a request of run id *)
NoAnswer ==
    [id |-> 0, endpoint |-> "none", kind |-> "none", status |-> 0, ok |-> FALSE,
     json |-> FALSE, length |-> 0]
Answer(id, endpoint, res) ==
    [id |-> id, endpoint |-> endpoint, kind |-> res.kind, status |-> res.status,
     ok |-> res.ok, json |-> res.json,
     length |-> IF endpoint = "user" THEN 0 ELSE Len(res.body)]

Init ==
    /\ username = ""
    /\ repos = <<>>
    /\ commitData = <<>>
    /\ loading = FALSE
    /\ error = ""
    /\ years = <<>>
    /\ selectedYear = <<>>
    /\ showChart = FALSE
    /\ now = StartInstant
    /\ runs = [id \in RunIds |-> IdleRun]
    /\ nruns = 0
    /\ profile = [fetched |-> FALSE, user |-> "", createdYear |-> 0, currentYear |-> 0]
    /\ last = NoAnswer
    /\ github \in Worlds
    /\ budget = BudgetOf(github)

(* ------------------------------------------------- fetchCommits, pure part *)
(* customRepos.slice(0, 25) *)
Slice(s, from, to) == SubSeq(s, from + 1, Min(to, Len(s)))
(* mutant: the cap is off by one *)
MutReposToProcess(customRepos) == Slice(customRepos, 0, RepoCap + 1)
ReposToProcess(customRepos) == Slice(customRepos, 0, RepoCap)

(* mutant: the upper bound is not clamped to now *)
MutWindow(year, currentYear, nowT) ==
    [since |-> toISOString(DateYearStart(year)),
     until |-> toISOString(DateYearEnd(year))]
(* lines 168-173: the date window of the commit query *)
Window(year, currentYear, nowT) ==
    LET since  == toISOString(DateYearStart(year))
        until0 == toISOString(DateYearEnd(year))
    IN  [since |-> since,
         until |-> IF year = currentYear /\ DateParse(until0) > nowT
                     THEN toISOString(nowT) ELSE until0]

(* lines 181-183: the request the loop issues for r.idx, r.page *)
Request(r) ==
    LET w == Window(r.year, r.currentYear, r.now)
    IN  [owner |-> r.username, name |-> r.reposToProcess[r.idx].name,
         since |-> w.since, until |-> w.until, per_page |-> PerPage, page |-> r.page]

(* the log keeps, per request issued, the repository (index in the input   *)
(* list and name), the page, and how the request ended                     *)
IssueRequest(r) ==
    [r EXCEPT !.pc = "awaitCommits",
              !.log = Append(@, [idx |-> r.idx, name |-> Request(r).name,
                                 page |-> Request(r).page, res |-> "pending", n |-> 0])]

(* line 164: the for-of loop moves to the next repository, or ends *)
NextRepo(r) ==
    IF r.idx + 1 > Len(r.reposToProcess)
      THEN [r EXCEPT !.pc = "loopDone"]
      ELSE IssueRequest([r EXCEPT !.idx = @ + 1, !.page = 1])

(* mutant: the month index is shifted by one *)
MutGetMonth(date) == (date.m + 1) % Months
(* lines 189-193: commits.forEach; a commit without author date throws *)
getMonth(date) == date.m
Increment(mc, monthIndex) ==
    [mc EXCEPT ![monthIndex + 1].commits = @ + 1]

(* forEach over commits[lo..hi] in order, stopping at the first throw; the *)
(* range is halved so that the evaluation stays shallow                    *)
RECURSIVE ForEachRange(_, _, _, _)
ForEachRange(mc, commits, lo, hi) ==
    IF lo > hi THEN [mc |-> mc, threw |-> FALSE]
    ELSE IF lo = hi
      THEN IF ~commits[lo].hasAuthor THEN [mc |-> mc, threw |-> TRUE]
           ELSE [mc |-> Increment(mc, getMonth(commits[lo].date)), threw |-> FALSE]
    ELSE LET mid   == (lo + hi) \div 2
             first == ForEachRange(mc, commits, lo, mid)
         IN  IF first.threw THEN first
             ELSE ForEachRange(first.mc, commits, mid + 1, hi)

ForEachCommit(mc, commits) == ForEachRange(mc, commits, 1, Len(commits))

(* lines 196-202: whether the while loop fetches another page *)
(* mutant: the safety check on the page number is off by one *)
MutHasMoreCommitsLate(length, nextPage) ==
    IF nextPage > PageCap + 1 THEN FALSE ELSE length = PerPage
(* mutant: the safety check on the page number is missing *)
MutHasMoreCommits(length, nextPage) == length = PerPage
HasMoreCommits(length, nextPage) ==
    IF nextPage > PageCap THEN FALSE ELSE length = PerPage

Answered(r, res, n) ==
    [r EXCEPT !.log[Len(r.log)].res = res, !.log[Len(r.log)].n = n]

(* lines 185-202: a page arrived with res.ok *)
AfterOkPage(r, res) ==
    IF ~res.json THEN NextRepo(Answered(r, "threw", 0))
    ELSE LET fe == ForEachCommit(r.monthlyCommits, res.body)
             r1 == [r EXCEPT !.monthlyCommits = fe.mc]
         IN  IF fe.threw THEN NextRepo(Answered(r1, "threw", Len(res.body)))
             ELSE LET r2 == [Answered(r1, "ok", Len(res.body)) EXCEPT !.page = @ + 1]
                  IN  IF HasMoreCommits(Len(res.body), r2.page)
                        THEN IssueRequest(r2) ELSE NextRepo(r2)

(* mutant: a page that failed with a status is requested once more *)
MutAfterNotOk(r, res) ==
    IF Len(r.log) >= 2 /\ r.log[Len(r.log) - 1].idx = r.idx
                       /\ r.log[Len(r.log) - 1].page = r.page
      THEN NextRepo(Answered(r, "status", res.status))
      ELSE IssueRequest(Answered(r, "status", res.status))
(* lines 203-209: 404/409, or any other non-2xx status *)
AfterNotOk(r, res) == NextRepo(Answered(r, "status", res.status))

(* mutant: the try/catch sits around the loop, not inside it *)
MutAfterRejected(r) == [Answered(r, "rejected", 0) EXCEPT !.pc = "loopDone"]
(* lines 211-214: fetchWithAuth rejected *)
AfterRejected(r) == NextRepo(Answered(r, "rejected", 0))

(* line 141: if (customRepos.length === 0) return *)
CustomReposEmpty(customRepos) == Len(customRepos) = 0

(* mutant: the search does not test the list before aggregating *)
MutHasRepos(reposData) == TRUE
(* line 128: if (reposData.length > 0) *)
HasRepos(reposData) == Len(reposData) > 0

(* lines 140-183: fetchCommits up to its first await *)
FetchCommitsBegin(r, year, customRepos, uname, nowT) ==
    IssueRequest([r EXCEPT !.username = uname, !.year = year,
                           !.customRepos = customRepos,
                           !.reposToProcess = ReposToProcess(customRepos),
                           !.now = nowT, !.currentYear = getFullYear(nowT),
                           !.monthlyCommits = ZeroBuckets,
                           !.idx = 1, !.page = 1, !.log = <<>>])

(* mutant: the range is one year too long *)
MutYearRange(createdYear, currentYear) ==
    LET length == IF currentYear - createdYear + 2 > 0
                    THEN currentYear - createdYear + 2 ELSE 0
    IN  [i \in 1..length |-> currentYear - (i - 1)]
(* lines 107-110 *)
YearRange(createdYear, currentYear) ==
    LET length == IF currentYear - createdYear + 1 > 0
                    THEN currentYear - createdYear + 1 ELSE 0
    IN  [i \in 1..length |-> currentYear - (i - 1)]

(* mutant: the messages of 401 and 403 are exchanged *)
MutUserErrorMessage(status) ==
    IF status = 404 THEN "User not found"
    ELSE IF status = 401 THEN "API rate limit exceeded or authentication issue"
    ELSE IF status = 403 THEN "Invalid GitHub token. Check your configuration."
    ELSE "GitHub API error: " \o ToString(status)
(* lines 90-100 *)
UserErrorMessage(status) ==
    IF status = 404 THEN "User not found"
    ELSE IF status = 403 THEN "API rate limit exceeded or authentication issue"
    ELSE IF status = 401 THEN "Invalid GitHub token. Check your configuration."
    ELSE "GitHub API error: " \o ToString(status)

(* line 121 *)
ReposErrorMessage(status) == "Failed to fetch repositories: " \o ToString(status)

(* the message of the TypeError a rejected fetch carries, of res.json()'s error *)
(* line 132 *)
NoReposMessage == "No repositories found for this user"

FetchFailedMessage == "Failed to fetch"
JsonErrorMessage == "Unexpected end of JSON input"

(* ---------------------------------------------------------------- actions *)
(* line 251: onChange of the username field; the field is never disabled *)
SetUsername(u) ==
    /\ username' = u
    /\ UNCHANGED <<repos, commitData, loading, error, years, selectedYear,
                   showChart, now, runs, nruns, profile, last, github, budget>>

(* mutant: the search does not clear the list of years *)
MutFetchReposAndYears ==
    IF username = ""
      THEN /\ error' = "Please enter a GitHub username"
           /\ UNCHANGED <<username, repos, commitData, loading, years, selectedYear,
                          showChart, now, runs, nruns, profile, last, github, budget>>
      ELSE /\ nruns < budget
           /\ nruns' = nruns + 1
           /\ loading' = TRUE
           /\ error' = ""
           /\ commitData' = <<>>
           /\ repos' = <<>>
           /\ showChart' = FALSE
           /\ runs' = [runs EXCEPT ![nruns + 1] =
                         [IdleRun EXCEPT !.pc = "awaitUser", !.entry = "search",
                                         !.username = username]]
           /\ UNCHANGED <<username, years, selectedYear, now, profile, last,
                          github, budget>>
(* lines 73-88: fetchReposAndYears up to its first await *)
FetchReposAndYears ==
    IF username = ""
      THEN /\ error' = "Please enter a GitHub username"
           /\ UNCHANGED <<username, repos, commitData, loading, years, selectedYear,
                          showChart, now, runs, nruns, profile, last, github, budget>>
      ELSE /\ nruns < budget
           /\ nruns' = nruns + 1
           /\ loading' = TRUE
           /\ error' = ""
           /\ commitData' = <<>>
           /\ repos' = <<>>
           /\ years' = <<>>
           /\ showChart' = FALSE
           /\ runs' = [runs EXCEPT ![nruns + 1] =
                         [IdleRun EXCEPT !.pc = "awaitUser", !.entry = "search",
                                         !.username = username]]
           /\ UNCHANGED <<username, selectedYear, now, profile, last, github, budget>>

(* lines 226-228, 255: the Search button, disabled while loading *)
ClickSearch ==
    /\ ~loading
    /\ FetchReposAndYears

(* lines 236-241, 252: a key pressed in the username field *)
Keys == {"Enter", "a"}
HandleKeyDown(key) ==
    /\ key = "Enter"
    /\ FetchReposAndYears

(* lines 134-137: the catch of fetchReposAndYears *)
SetupFailed(id, message) ==
    /\ error' = message
    /\ loading' = FALSE
    /\ runs' = [runs EXCEPT ![id] = DoneRun]
    /\ UNCHANGED <<username, repos, commitData, years, selectedYear, showChart,
                   now, nruns, profile, github, budget>>

(* lines 88-116: the profile answer arrives *)
UserResponse(id) ==
    /\ runs[id].pc = "awaitUser"
    /\ \E res \in GitHubUser(runs[id].username) :
         /\ last' = Answer(id, "user", res)
         /\ IF res.kind = "rejected" THEN SetupFailed(id, FetchFailedMessage)
            ELSE IF ~res.ok THEN SetupFailed(id, UserErrorMessage(res.status))
            ELSE LET createdYear == getFullYear(res.body.created_at)
                     currentYear == getFullYear(now)
                 IN  /\ years' = YearRange(createdYear, currentYear)
                     /\ selectedYear' = <<currentYear>>
                     /\ profile' = [fetched |-> TRUE, user |-> runs[id].username,
                                    createdYear |-> createdYear,
                                    currentYear |-> currentYear]
                     /\ runs' = [runs EXCEPT ![id].pc = "awaitRepos",
                                             ![id].currentYear = currentYear]
                     /\ UNCHANGED <<username, repos, commitData, loading, error,
                                    showChart, now, nruns, github, budget>>

(* lines 217-223: the loop ended; or the run awaits its next commit page *)
Continue(id, next) ==
    LET r == next
    IN  IF r.pc = "loopDone"
          THEN /\ commitData' = r.monthlyCommits
               /\ showChart' = TRUE
               /\ loading' = FALSE
               /\ runs' = [runs EXCEPT ![id] = DoneRun]
          ELSE /\ runs' = [runs EXCEPT ![id] = r]
               /\ UNCHANGED <<commitData, showChart, loading>>

(* lines 143-183: fetchCommits, past the guard of line 141, to its first await *)
FetchCommits(id, year, customRepos, uname) ==
    /\ loading' = TRUE
    /\ commitData' = <<>>
    /\ showChart' = FALSE
    /\ error' = ""
    /\ runs' = [runs EXCEPT ![id] =
                  FetchCommitsBegin(runs[id], year, customRepos, uname, now)]

(* lines 116-133: the repository list answer arrives *)
ReposResponse(id) ==
    /\ runs[id].pc = "awaitRepos"
    /\ \E res \in GitHubRepos(runs[id].username) :
         /\ last' = Answer(id, "repos", res)
         /\ IF res.kind = "rejected" THEN SetupFailed(id, FetchFailedMessage)
            ELSE IF ~res.ok THEN SetupFailed(id, ReposErrorMessage(res.status))
            ELSE IF ~res.json THEN SetupFailed(id, JsonErrorMessage)
            ELSE /\ repos' = res.body
                 /\ IF HasRepos(res.body)
                      THEN IF CustomReposEmpty(res.body)
                             THEN /\ runs' = [runs EXCEPT ![id] = DoneRun]
                                  /\ UNCHANGED <<loading, commitData, showChart, error>>
                             ELSE FetchCommits(id, runs[id].currentYear, res.body,
                                               runs[id].username)
                      ELSE /\ loading' = FALSE
                           /\ error' = NoReposMessage
                           /\ runs' = [runs EXCEPT ![id] = DoneRun]
                           /\ UNCHANGED <<commitData, showChart>>
                 /\ UNCHANGED <<username, years, selectedYear, now, nruns, profile,
                                github, budget>>

(* lines 230-234, 311-316: the year selector, rendered when years is not    *)
(* empty and disabled while loading; fetchCommits(year) reads repos and     *)
(* username from the closure of the current render                          *)
HandleYearChange(year) ==
    /\ ~loading
    /\ \E i \in 1..Len(years) : years[i] = year
    /\ <<year>> # selectedYear
    /\ selectedYear' = <<year>>
    /\ IF CustomReposEmpty(repos)
         THEN UNCHANGED <<commitData, loading, error, showChart, runs, nruns>>
         ELSE /\ nruns < budget
              /\ nruns' = nruns + 1
              /\ FetchCommits(nruns + 1, year, repos, username)
    /\ UNCHANGED <<username, repos, years, now, profile, last, github, budget>>

(* lines 181-214: the answer to a commit page request *)
CommitsOutcome(r) ==
    LET q == Request(r)
    IN  GitHubCommits(q.owner, q.name, q.since, q.until, q.page)

AfterResponse(r, res) ==
    IF res.kind = "rejected" THEN AfterRejected(r)
    ELSE IF res.ok THEN AfterOkPage(r, res)
    ELSE AfterNotOk(r, res)

(* lines 181-223: the answer arrives; the loop runs on to its next await, *)
(* or to the end of fetchCommits                                           *)
CommitsResponse(id) ==
    /\ runs[id].pc = "awaitCommits"
    /\ LET res == CommitsOutcome(runs[id])
       IN  /\ last' = Answer(id, "commits", res)
           /\ Continue(id, AfterResponse(runs[id], res))
    /\ UNCHANGED <<username, repos, error, years, selectedYear, now, nruns, profile,
                   github, budget>>

(* the wall clock advances *)
Tick ==
    /\ now < StartInstant + TicksOf(github)
    /\ now' = now + 1
    /\ UNCHANGED <<username, repos, commitData, loading, error, years, selectedYear,
                   showChart, runs, nruns, profile, last, github, budget>>

Next ==
    \/ \E u \in Usernames : SetUsername(u)
    \/ ClickSearch
    \/ \E key \in Keys : HandleKeyDown(key)
    \/ \E id \in RunIds : UserResponse(id)
    \/ \E id \in RunIds : ReposResponse(id)
    \/ \E i \in 1..Len(years) : HandleYearChange(years[i])
    \/ \E id \in RunIds : CommitsResponse(id)
    \/ Tick

Spec == Init /\ [][Next]_vars

(* ------------------------------------------------------------ properties *)
RECURSIVE SumFrom(_, _)
SumFrom(cd, i) == IF i > Len(cd) THEN 0 ELSE cd[i].commits + SumFrom(cd, i + 1)
(* mutant: the reduce skips the first bucket *)
MutSumCommits(cd) == SumFrom(cd, 2)
(* line 343: commitData.reduce((sum, data) => sum + data.commits, 0) *)
SumCommits(cd) == SumFrom(cd, 1)

InFlight(r) == r.pc = "awaitCommits"
(* the step in which run id receives the answer that ends its loop *)
Finishes(id) == runs[id].pc = "awaitCommits" /\ runs'[id].pc = "done"
LastEntry(r) == r.log[Len(r.log)]
AllGood(body) == \A k \in 1..Len(body) : body[k].hasAuthor

(* C1: commit requests are issued only for the first RepoCap repositories *)
(* of the input list, in input order, and a run over a longer list raises  *)
(* no error: its steps leave the error message alone and it ends by        *)
(* publishing its buckets.                                                 *)
C1_OnlyFirst25Queried ==
    [][\A id \in RunIds :
         /\ InFlight(runs'[id]) =>
              LET r == runs'[id]
              IN  /\ \A k \in 1..Len(r.log) :
                       /\ r.log[k].idx \in 1..Min(RepoCap, Len(r.customRepos))
                       /\ r.log[k].name = r.customRepos[r.log[k].idx].name
                  /\ \A k \in 2..Len(r.log) : r.log[k].idx >= r.log[k - 1].idx
         /\ (Len(runs[id].customRepos) > RepoCap /\ runs'[id] # runs[id]) =>
              /\ error' = error
              /\ Finishes(id) => (showChart' /\ Len(commitData') = Months)
      ]_vars

C1_Witness ==
    /\ Len(repos) > RepoCap
    /\ showChart /\ Len(commitData) = Months /\ error = ""
    /\ last.endpoint = "commits"

(* C2: while the pages of a repository answer with success, pages 1, 2, ... *)
(* are requested in order and the repository is left right after the first *)
(* page of fewer than PerPage items, or after page PageCap; pages of 100,   *)
(* 100, 30 give 3 requests and 230 commits, 100 on every page 5 requests   *)
(* (a repository requested under another owner's name answers 404).        *)
C2_Pagination ==
    [][\A id \in RunIds :
         /\ InFlight(runs'[id]) =>
              LET r == runs'[id]
              IN  /\ r.log[1].page = 1
                  /\ \A k \in 1..Len(r.log) : r.log[k].page \in 1..PageCap
                  /\ \A k \in 2..Len(r.log) :
                       LET d == r.log[k - 1]
                           e == r.log[k]
                       IN  /\ e.page > 1 =>
                                (e.idx = d.idx /\ e.page = d.page + 1 /\ d.res = "ok")
                           /\ d.res = "ok" =>
                                IF d.n = PerPage /\ d.page < PageCap
                                  THEN e.idx = d.idx /\ e.page = d.page + 1
                                  ELSE e.idx = d.idx + 1 /\ e.page = 1
         /\ Finishes(id) =>
              LET r    == runs[id]
                  res  == CommitsOutcome(r)
                  kind == IF Exists(r.username, LastEntry(r).name)
                            THEN LastEntry(r).name[1] ELSE "none"
              IN  /\ (res.ok /\ res.json /\ AllGood(res.body)
                         /\ Len(res.body) = PerPage) => r.page = PageCap
                  /\ kind = "r230" => r.page = 3
                  /\ kind = "rfull" => r.page = PageCap
                  /\ (kind = "r230" /\ Len(r.customRepos) = 1) =>
                        (Len(r.log) = 3 /\ SumCommits(commitData') = 230)
                  /\ (kind = "rfull" /\ Len(r.customRepos) = 1) => Len(r.log) = PageCap
      ]_vars

C2_Witness ==
    /\ showChart /\ Len(commitData) = Months /\ SumCommits(commitData) = 230
    /\ Len(repos) = 1 /\ repos[1].name[1] = "r230"

Awaiting(r) == r.pc \in {"awaitUser", "awaitRepos", "awaitCommits"}
(* the step in which run id receives the answer `last'` *)
Receives(id) == Awaiting(runs[id]) /\ runs'[id] # runs[id] /\ last'.id = id
(* lines 307, 325-346: the bar chart is on screen *)
ChartShown ==
    /\ Len(years) > 0 /\ showChart /\ Len(commitData) > 0
    /\ \E i \in 1..Len(commitData) : commitData[i].commits # 0

(* C3: a non-success status on a commit page ends the pagination of that   *)
(* repository only: the run goes on to page 1 of the next selected          *)
(* repository, the page adds no commit, and the run ends with an empty      *)
(* error message.                                                           *)
C3_StatusEndsRepoOnly ==
    [][\A id \in RunIds :
         LET r == runs[id]
         IN  /\ (InFlight(r) /\ Receives(id) /\ last'.kind = "response" /\ ~last'.ok) =>
                  IF r.idx < Len(r.reposToProcess)
                    THEN /\ InFlight(runs'[id])
                         /\ LastEntry(runs'[id]).idx = r.idx + 1
                         /\ LastEntry(runs'[id]).page = 1
                         /\ runs'[id].monthlyCommits = r.monthlyCommits
                    ELSE /\ Finishes(id)
                         /\ commitData' = r.monthlyCommits
             /\ (Finishes(id) /\ (~last'.ok \/ \E k \in 1..Len(r.log) : r.log[k].res = "status"))
                  => error' = ""
      ]_vars

(* what holds of C3 whatever other runs do: the steps of the run itself    *)
(* leave the error message as it is                                        *)
C3_RunSetsNoError ==
    [][\A id \in RunIds :
         LET r == runs[id]
         IN  /\ (InFlight(r) /\ Receives(id) /\ last'.kind = "response" /\ ~last'.ok) =>
                  /\ error' = error
                  /\ IF r.idx < Len(r.reposToProcess)
                       THEN /\ InFlight(runs'[id])
                            /\ LastEntry(runs'[id]).idx = r.idx + 1
                            /\ LastEntry(runs'[id]).page = 1
                            /\ runs'[id].monthlyCommits = r.monthlyCommits
                       ELSE /\ Finishes(id)
                            /\ commitData' = r.monthlyCommits
      ]_vars

EmptySearchStep(id) ==
    /\ runs[id].pc = "awaitRepos" /\ Receives(id)
    /\ last'.ok /\ last'.json /\ last'.length = 0
EmptyYearChangeStep ==
    /\ selectedYear' # selectedYear /\ last' = last /\ Len(repos) = 0

C6_SetupFailureHalts ==
    [][\A id \in RunIds :
         /\ (runs[id].pc \in {"awaitUser", "awaitRepos"} /\ Receives(id)
               /\ (last'.kind = "rejected" \/ ~last'.ok \/ ~last'.json)) =>
              /\ runs'[id].pc = "done"
              /\ error' # "" /\ loading' = FALSE
              /\ ~ChartShown'
         /\ runs[id].pc = "done" => runs'[id].pc = "done"
      ]_vars

(* what holds of C6 whatever other runs do: the halting step leaves the    *)
(* chart state alone                                                       *)
C6_HaltSetsErrorOnly ==
    [][\A id \in RunIds :
         /\ (runs[id].pc \in {"awaitUser", "awaitRepos"} /\ Receives(id)
               /\ (last'.kind = "rejected" \/ ~last'.ok \/ ~last'.json)) =>
              /\ runs'[id].pc = "done"
              /\ error' # "" /\ loading' = FALSE
              /\ UNCHANGED <<showChart, commitData, repos, years>>
         /\ runs[id].pc = "done" => runs'[id].pc = "done"
      ]_vars

(* C7: at any moment at most one network call is outstanding. *)
Outstanding == {id \in RunIds : Awaiting(runs[id])}
C7_OneCallOutstanding == Cardinality(Outstanding) <= 1

(* C8: the sum of the monthly counts never exceeds (repositories processed) *)
(* x PageCap x PerPage, with at most RepoCap repositories processed; while  *)
(* page p of repository i is awaited it is at most (i-1) x PageCap x        *)
(* PerPage + (p-1) x PerPage.                                               *)
C8_SumBound ==
    [][\A id \in RunIds :
         /\ InFlight(runs'[id]) =>
              LET r == runs'[id]
              IN  /\ Len(r.reposToProcess) <= RepoCap
                  /\ SumCommits(r.monthlyCommits)
                       <= (r.idx - 1) * PageCap * PerPage + (r.page - 1) * PerPage
         /\ Finishes(id) =>
              /\ commitData' = AfterResponse(runs[id], CommitsOutcome(runs[id])).monthlyCommits
              /\ SumCommits(commitData')
                   <= Len(runs[id].reposToProcess) * PageCap * PerPage
      ]_vars

C8_Witness ==
    /\ showChart /\ Len(commitData) = Months
    /\ Len(repos) = 1 /\ SumCommits(commitData) = PageCap * PerPage

(* C9: the 'until' of the commit requests of a run for the current year is *)
(* never later than the current instant; for a past year it is the last    *)
(* instant of that year and 'since' is its first instant.                  *)
C9_UntilBound ==
    \A id \in RunIds :
      InFlight(runs[id]) =>
        LET r == runs[id]
            q == Request(r)
        IN  /\ r.year <= getFullYear(r.now)
            /\ r.year = getFullYear(r.now) => DateParse(q.until) <= now
            /\ r.year < getFullYear(r.now) =>
                 /\ q.until = toISOString(DateYearEnd(r.year))
                 /\ q.since = toISOString(DateYearStart(r.year))

C9_Witness ==
    \E id \in RunIds :
      /\ InFlight(runs[id])
      /\ runs[id].year = getFullYear(runs[id].now)
      /\ DateYearEnd(runs[id].year) > runs[id].now
      /\ Request(runs[id]).until = toISOString(runs[id].now)

(* C10: the years the selector offers lie between the creation year of the *)
(* last successfully fetched profile and the current year; a successful    *)
(* profile fetch sets the list to exactly that range, descending, and the  *)
(* selected year to the current year.                                      *)
C10_YearsInRange ==
    [][/\ \A i \in 1..Len(years') :
            /\ profile'.fetched
            /\ years'[i] >= profile'.createdYear
            /\ years'[i] <= getFullYear(now')
       /\ \A id \in RunIds :
            (runs[id].pc = "awaitUser" /\ runs'[id].pc = "awaitRepos") =>
              LET cur == getFullYear(now)
                  cr  == profile'.createdYear
              IN  /\ Len(years') = (IF cur >= cr THEN cur - cr + 1 ELSE 0)
                  /\ \A i \in 1..Len(years') : years'[i] = cur - (i - 1)
                  /\ selectedYear' = <<cur>>
      ]_vars

C10_Witness ==
    /\ profile.fetched /\ Len(years) >= 2
    /\ years[Len(years)] = profile.createdYear
    /\ selectedYear = <<getFullYear(now)>>

(* lines 307, 325-329: the notice "No commits found for <year>" is on screen *)
NoticeShown ==
    /\ Len(years) > 0 /\ showChart /\ Len(commitData) > 0
    /\ \A i \in 1..Len(commitData) : commitData[i].commits = 0

AllZero(cd) == \A i \in 1..Len(cd) : cd[i].commits = 0

(* C11: every aggregation run over a non-empty repository list ends by      *)
(* publishing exactly twelve buckets with counts >= 0 and showChart = true, *)
(* whatever the answers were; the notice is then on screen iff all twelve   *)
(* buckets are zero, and the chart otherwise (checked for accounts created  *)
(* no later than the year of the clock, whose list of years is not empty).  *)
C11_EndsWithTwelveBuckets ==
    [][\A id \in RunIds :
         (Finishes(id) /\ profile.fetched
            /\ profile.createdYear <= profile.currentYear) =>
           /\ Len(runs[id].customRepos) > 0
           /\ Len(commitData') = Months
           /\ \A i \in 1..Months : commitData'[i].commits >= 0
           /\ showChart'
           /\ NoticeShown' <=> AllZero(commitData')
           /\ ChartShown' <=> ~AllZero(commitData')
      ]_vars

(* what holds of C11 whatever other runs do: the run publishes its twelve  *)
(* buckets and showChart = true; what is on screen also depends on years   *)
C11_RunPublishesBuckets ==
    [][\A id \in RunIds :
         Finishes(id) =>
           /\ Len(runs[id].customRepos) > 0
           /\ Len(commitData') = Months
           /\ \A i \in 1..Months : commitData'[i].commits >= 0
           /\ showChart' /\ ~loading'
           /\ Len(years') > 0 => (NoticeShown' <=> AllZero(commitData'))
           /\ Len(years') > 0 => (ChartShown' <=> ~AllZero(commitData'))
      ]_vars

(* C12: a non-success profile answer sets the error by status: 404 "User    *)
(* not found", 401 the invalid-token message, 403 the rate-limit message,   *)
(* any other status "GitHub API error: <status>"; a non-success repository  *)
(* list answer sets "Failed to fetch repositories: <status>".               *)
C12_ErrorByStatus ==
    [][\A id \in RunIds :
         (Receives(id) /\ last'.kind = "response" /\ ~last'.ok) =>
           /\ runs[id].pc = "awaitUser" =>
                error' = CASE last'.status = 404 -> "User not found"
                           [] last'.status = 401 ->
                                "Invalid GitHub token. Check your configuration."
                           [] last'.status = 403 ->
                                "API rate limit exceeded or authentication issue"
                           [] OTHER -> "GitHub API error: " \o ToString(last'.status)
           /\ runs[id].pc = "awaitRepos" =>
                error' = "Failed to fetch repositories: " \o ToString(last'.status)
      ]_vars

C12_Witness ==
    /\ last.endpoint = "user" /\ last.kind = "response" /\ last.status = 403
    /\ error = "API rate limit exceeded or authentication issue"
    /\ ~loading

(* C13: within one run no request is retried: each (repository, page) pair *)
(* is requested at most once, whether it succeeded or failed, so a run      *)
(* issues at most RepoCap x PageCap commit requests.                        *)
C13_NoRetry ==
    \A id \in RunIds :
      InFlight(runs[id]) =>
        LET log == runs[id].log
        IN  /\ \A j, k \in 1..Len(log) :
                 (log[j].idx = log[k].idx /\ log[j].page = log[k].page) => j = k
            /\ Len(log) <= RepoCap * PageCap

C13_Witness ==
    \E id \in RunIds :
      /\ InFlight(runs[id])
      /\ \E k \in 1..(Len(runs[id].log) - 1) :
           /\ runs[id].log[k].res = "status" /\ runs[id].log[k].n = 500
           /\ runs[id].log[k].page = 2
           /\ runs[id].log[k + 1].idx = runs[id].log[k].idx + 1

(* line 343: the total the summary line prints *)
DisplayedTotal == SumCommits(commitData)

(* C14: whenever the chart is on screen, twelve buckets are displayed and   *)
(* the total printed is the sum of those twelve buckets.                    *)
C14_TotalIsSumOfBuckets ==
    ChartShown =>
      /\ Len(commitData) = Months
      /\ DisplayedTotal =
           commitData[1].commits + commitData[2].commits + commitData[3].commits
           + commitData[4].commits + commitData[5].commits + commitData[6].commits
           + commitData[7].commits + commitData[8].commits + commitData[9].commits
           + commitData[10].commits + commitData[11].commits + commitData[12].commits

C14_Witness ==
    /\ ChartShown /\ DisplayedTotal = 101
    /\ commitData[2].commits = 100 /\ commitData[12].commits = 1

(* C15: runs never overlap: no user action starts a run while loading is   *)
(* true, so the results published come from the most recently started run. *)
C15_RunsNeverOverlap ==
    [][/\ nruns' # nruns => ~loading
       /\ \A id \in RunIds : Finishes(id) => id = nruns
      ]_vars

(* what holds of C15: the Search button and the year selector start no run *)
(* while loading is true; only the Enter key does                           *)
C15_OnlyEnterOverlaps ==
    [][(nruns' # nruns /\ loading) =>
          /\ selectedYear' = selectedYear
          /\ runs'[nruns'].entry = "search"
          /\ username # ""
      ]_vars

(* the account a repository of the list belongs to *)
OwnerOf(repo) == repo.html_url[1]

(* C16: every commit request names the owner of the repository list held   *)
(* in state, also when the username field was edited after the search and  *)
(* the year is changed without a new search.                               *)
C16_RequestsNameListOwner ==
    \A id \in RunIds :
      InFlight(runs[id]) =>
        \A k \in 1..Len(runs[id].customRepos) :
          Request(runs[id]).owner = OwnerOf(runs[id].customRepos[k])

(* what holds of C16: a run started by a search names the searched user;   *)
(* a run started by a year change names whatever the username field holds  *)
(* when the year is changed                                                *)
C16_OwnerIsUsernameState ==
    [][\A id \in RunIds :
         (~InFlight(runs[id]) /\ InFlight(runs'[id])) =>
           /\ runs[id].pc = "awaitRepos" =>
                \A k \in 1..Len(runs'[id].customRepos) :
                  Request(runs'[id]).owner = OwnerOf(runs'[id].customRepos[k])
           /\ runs[id].pc = "idle" =>
                /\ Request(runs'[id]).owner = username
                /\ runs'[id].customRepos = repos
      ]_vars

(* Every network call eventually returns a response or throws: the answer  *)
(* a run awaits is eventually delivered to it.  CommitsResponse(id) is     *)
(* enabled exactly when run id awaits a commit page, and its weak fairness *)
(* is written out with that enabling condition.                            *)
FairSpec ==
    /\ Spec
    /\ \A id \in RunIds :
         /\ WF_vars(UserResponse(id))
         /\ WF_vars(ReposResponse(id))
         /\ (<>[](runs[id].pc = "awaitCommits")) => []<><<CommitsResponse(id)>>_vars

(* the step in which run id returns *)
Terminates(id) == Awaiting(runs[id]) /\ runs'[id].pc = "done"

(* C17: every started run eventually terminates, and does so with loading  *)
(* = false, on every path; and loading is never false while a run still    *)
(* has requests to issue.                                                  *)
C17_TerminatesAndLoadingHeld ==
    /\ \A id \in RunIds : Awaiting(runs[id]) ~> (runs[id].pc = "done")
    /\ [][\A id \in RunIds : Terminates(id) => ~loading']_vars
    /\ [](\A id \in RunIds : Awaiting(runs[id]) => loading)

(* what holds of C17 whatever other runs do: every started run eventually  *)
(* terminates, and the step in which it returns sets loading = false       *)
C17_EveryRunTerminates ==
    /\ \A id \in RunIds : Awaiting(runs[id]) ~> (runs[id].pc = "done")
    /\ [][\A id \in RunIds : Terminates(id) => ~loading']_vars

(* the number of items of all pages the log records as processed whole *)
RECURSIVE SumOkFrom(_, _)
SumOkFrom(log, i) ==
    IF i > Len(log) THEN 0
    ELSE (IF log[i].res = "ok" THEN log[i].n ELSE 0) + SumOkFrom(log, i + 1)
NoThrow(log) == \A k \in 1..Len(log) : log[k].res # "threw"
ItemsOfMonth(body, m) == Cardinality({k \in 1..Len(body) : body[k].date.m = m})

(* C18: when no exception occurs, each item of each successfully fetched   *)
(* page adds one to the bucket of the month of its authored date, whatever *)
(* its year; so the buckets sum to the number of items of all pages        *)
(* fetched with success, and a failing page leaves the counts of the       *)
(* earlier pages as they are.                                              *)
C18_EachItemCountsOnce ==
    [][\A id \in RunIds :
         LET r   == runs[id]
             res == CommitsOutcome(r)
             new == IF Finishes(id) THEN commitData' ELSE runs'[id].monthlyCommits
         IN  /\ (InFlight(r) /\ Receives(id)) =>
                  IF res.ok /\ res.json /\ AllGood(res.body)
                    THEN \A m \in 1..Months :
                           new[m].commits =
                             r.monthlyCommits[m].commits + ItemsOfMonth(res.body, m - 1)
                    ELSE res.kind = "rejected" \/ ~res.ok => new = r.monthlyCommits
             /\ (InFlight(runs'[id]) /\ NoThrow(runs'[id].log)) =>
                  SumCommits(runs'[id].monthlyCommits) = SumOkFrom(runs'[id].log, 1)
      ]_vars

C18_Witness ==
    /\ \E id \in RunIds :
         /\ InFlight(runs[id]) /\ NoThrow(runs[id].log)
         /\ \E k \in 2..Len(runs[id].log) :
              /\ runs[id].log[k].res = "rejected" /\ runs[id].log[k].page = 2
              /\ runs[id].log[k - 1].res = "ok" /\ runs[id].log[k - 1].n = PerPage
         /\ SumCommits(runs[id].monthlyCommits) = PerPage
         /\ runs[id].monthlyCommits[2].commits = PerPage

(* C19: a search with an empty username sets the error "Please enter a     *)
(* GitHub username", issues no network call and leaves repos, years,       *)
(* selectedYear, commitData, showChart and loading as they are; a search   *)
(* with a non-empty username clears error, commitData, repos, years and    *)
(* showChart before its first network call.                                *)
C19_SearchFrame ==
    [][/\ (error' = "Please enter a GitHub username" /\ error' # error) =>
            /\ username = ""
            /\ UNCHANGED <<repos, years, selectedYear, commitData, showChart,
                           loading, runs, nruns, last>>
       /\ username = "" =>
            \A id \in RunIds : runs'[id].pc = "awaitUser" => runs[id].pc = "awaitUser"
       /\ \A id \in RunIds :
            (runs[id].pc = "idle" /\ runs'[id].pc = "awaitUser") =>
              /\ username # "" /\ runs'[id].username = username
              /\ error' = "" /\ commitData' = <<>> /\ repos' = <<>>
              /\ years' = <<>> /\ ~showChart' /\ loading'
              /\ runs'[id].log = <<>> /\ last' = last
      ]_vars

C19_Witness ==
    /\ error = "Please enter a GitHub username" /\ username = ""
    /\ ChartShown /\ Len(repos) > 0 /\ selectedYear # <<>> /\ ~loading
    /\ \A id \in RunIds : ~Awaiting(runs[id])

====
